---- MODULE Spec2Model ----
(***************************************************************************)
(* The gas price oracle: GasPriceOracle.Start and GasPriceOracle.Loop      *)
(* (go/gas-oracle/oracle/gas_price_oracle.go) driving                      *)
(* GasPriceUpdater.UpdateGasPrice (l2geth/rollup/gas_price_updater.go)     *)
(* against a chain whose height moves on its own (Spec), the same with a   *)
(* caller that stops the oracle or cancels its context (ShutdownSpec),     *)
(* main's start-up before Start (BootSpec), one pricer and the calls made  *)
(* on it (PricerSpec), single calls of the pure functions (FnSpec), the     *)
(* height reader on a growing chain (ReaderSpec), and NewGasPriceUpdater   *)
(* with the ticks of the updater it returns (UpdaterSpec).                 *)
(*                                                                         *)
(* Prices are float64 in the code.  They are kept here as exact dyadic     *)
(* rationals: an integer number of 1/PriceScale units.                     *)
(***************************************************************************)
EXTENDS Integers, Sequences, FiniteSets, TLC

\* ------------------------------------------------------------- bounds
\* Timer ticks the loop processes in one behaviour.
MaxTicks == 3
\* Highest block number the chain reaches.
MaxHeight == 3

\* One price unit is 1/PriceScale: every pricing step divides by at most 2.
PriceScale == 2 ^ MaxTicks

\* Values the operator-supplied configuration is drawn from.
TargetValues == {0, 2}
FloorValues == {0, 2}
InitialOnChainPrices == {1, 2}
Addresses == {"signer", "other"}

\* maxPercentChangePerEpoch as a fraction: 0.5
MaxChangeValues == {[num |-> 1, den |-> 2]}

\* Width of the updater's unsigned block arithmetic (64 in the code).
UintBits == 16
UintModulus == 2 ^ UintBits

\* significantFactor, 0.05 by default, as a fraction.
SignificantFactorNum == 5
SignificantFactorDen == 100

VARIABLES
    config,                 \* g.config: the fields Start and the pricer read
    owner,                  \* the owner recorded in the contract
    chainHeight,            \* number of the chain's tip block
    onChainPrice,           \* the contract's gasPrice (an unsigned integer)
    process,                \* "running" or "exited" (log.Crit exits)
    startResult,            \* what Start returned, "pending" before it runs
    loopPc,                 \* where the Loop goroutine stands
    epochStartBlockNumber,  \* gasPriceUpdater.epochStartBlockNumber
    curPrice,               \* gasPriceUpdater.gasPricer.curPrice
    l2GasPrice,             \* Loop's local: the price read at this tick
    ticks,                  \* timer fires the loop has taken
    seed,                   \* the tip Loop started from, -1 before
    ticklog,                \* one record per finished tick, oldest first
    stop,                   \* g.stop: "open" or "closed"
    ctx,                    \* g.ctx: "live", or "done" once cancelled
    observedAt,             \* ticks taken when the loop first saw ctx.Done, -1 before
    boot,                   \* main before Start: flags, position, chain calls made
    call                    \* calls of one function: inputs pending, and a log

\* What only Stop, the context and the loop's ctx.Done branch change.
shutdownVars == <<stop, ctx, observedAt>>

\* What only the start-up and the single-call specifications change.
auxVars == <<boot, call>>

vars == <<config, owner, chainHeight, onChainPrice, process, startResult,
          loopPc, epochStartBlockNumber, curPrice, l2GasPrice, ticks, seed,
          ticklog, shutdownVars, auxVars>>

\* ------------------------------------------------------------ helpers
Max(a, b) == IF a >= b THEN a ELSE b
Min(a, b) == IF a <= b THEN a ELSE b
Abs(a) == IF a >= 0 THEN a ELSE -a

\* rollup.GetAverageGasPerSecond: unsigned arithmetic, then float64(...).
GetAverageGasPerSecond(start, latest, epochLengthSeconds, averageBlockGasLimit) ==
    ((((latest - start) % UintModulus) * averageBlockGasLimit) % UintModulus)
        \div epochLengthSeconds

\* GasPricer.CompleteEpoch: the next price, or an error and the price kept.
\* cur and floor are in 1/PriceScale units; observed and target are rates.
CompleteEpoch_ClampUpOnly(cur, floor, target, maxChange, observed) ==
    IF observed < 0 THEN [err |-> "InvalidInput", price |-> cur]
    ELSE IF target <= 0 THEN [err |-> "InvalidConfiguration", price |-> cur]
    ELSE LET hi == maxChange.den + maxChange.num
             candidate ==
                 IF observed * maxChange.den > hi * target
                     THEN (cur * hi) \div maxChange.den
                 ELSE (cur * observed) \div target
         IN  [err |-> "nil", price |-> Max(candidate, floor)]

CompleteEpoch_Unclamped(cur, floor, target, maxChange, observed) ==
    IF observed < 0 THEN [err |-> "InvalidInput", price |-> cur]
    ELSE IF target <= 0 THEN [err |-> "InvalidConfiguration", price |-> cur]
    ELSE [err |-> "nil", price |-> Max((cur * observed) \div target, floor)]

CompleteEpoch_DirtyOnError(cur, floor, target, maxChange, observed) ==
    IF observed < 0 THEN [err |-> "InvalidInput", price |-> cur]
    ELSE IF target <= 0 THEN [err |-> "InvalidConfiguration", price |-> floor]
    ELSE LET lo == maxChange.den - maxChange.num
             hi == maxChange.den + maxChange.num
             candidate ==
                 IF observed * maxChange.den < lo * target
                     THEN (cur * lo) \div maxChange.den
                 ELSE IF observed * maxChange.den > hi * target
                     THEN (cur * hi) \div maxChange.den
                 ELSE (cur * observed) \div target
         IN  [err |-> "nil", price |-> Max(candidate, floor)]

CompleteEpoch_NoFloor(cur, floor, target, maxChange, observed) ==
    IF observed < 0 THEN [err |-> "InvalidInput", price |-> cur]
    ELSE IF target <= 0 THEN [err |-> "InvalidConfiguration", price |-> cur]
    ELSE LET lo == maxChange.den - maxChange.num
             hi == maxChange.den + maxChange.num
             candidate ==
                 IF observed * maxChange.den < lo * target
                     THEN (cur * lo) \div maxChange.den
                 ELSE IF observed * maxChange.den > hi * target
                     THEN (cur * hi) \div maxChange.den
                 ELSE (cur * observed) \div target
         IN  [err |-> "nil", price |-> candidate]

CompleteEpoch(cur, floor, target, maxChange, observed) ==
    IF observed < 0 THEN [err |-> "InvalidInput", price |-> cur]
    ELSE IF target <= 0 THEN [err |-> "InvalidConfiguration", price |-> cur]
    ELSE LET lo == maxChange.den - maxChange.num
             hi == maxChange.den + maxChange.num
             candidate ==
                 IF observed * maxChange.den < lo * target
                     THEN (cur * lo) \div maxChange.den
                 ELSE IF observed * maxChange.den > hi * target
                     THEN (cur * hi) \div maxChange.den
                 ELSE (cur * observed) \div target
         IN  [err |-> "nil", price |-> Max(candidate, floor)]

\* config.significantFactor as NewConfig leaves it.
significantFactor == [num |-> SignificantFactorNum, den |-> SignificantFactorDen]

\* isDifferenceSignificant(a, b, c): |a - b| relative to the larger of the
\* two exceeds c, as TestIsDifferenceSignificant expects: (4, 1, 0.9) is
\* not significant.
isDifferenceSignificant_MinBase(a, b, c) ==
    Abs(a - b) * c.den > c.num * Min(a, b)

isDifferenceSignificant(a, b, c) ==
    Abs(a - b) * c.den > c.num * Max(a, b)

\* float64 price to the contract's unsigned integer.
ToOnChain_RoundUp(price) == (price + PriceScale - 1) \div PriceScale

ToOnChain(price) == price \div PriceScale

\* The function wrapUpdateL2GasPriceFn returns: send the transaction that
\* sets the contract's gas price; the price now on chain, or an error.
updateL2GasPriceFn(price, writeOk) ==
    IF writeOk THEN [err |-> "nil", onChain |-> ToOnChain(price)]
    ELSE [err |-> "write", onChain |-> onChainPrice]

\* The function wrapGetLatestBlockNumberFn returns: the number of the
\* chain's tip block, -1 standing for an error.
getLatestBlockNumberFn_Parent(readOk) ==
    IF readOk THEN Max(chainHeight - 1, 0) ELSE -1

getLatestBlockNumberFn(readOk) ==
    IF readOk THEN chainHeight ELSE -1

\* UpdateGasPrice, lines 56-62: read the latest height, reject one below
\* the checkpoint.  latest is -1 when no height was read.
EpochErr_NoOrderCheck(readOk, start, latest) ==
    IF ~readOk THEN "read" ELSE "nil"

EpochErr(readOk, start, latest) ==
    IF ~readOk THEN "read"
    ELSE IF latest < start THEN "order"
    ELSE "nil"

\* UpdateGasPrice, lines 74-77: hand the pricer's price to
\* updateL2GasPriceFn and return its error.
InvokeUpdate_Gated(price, writeOk) ==
    IF isDifferenceSignificant(price, l2GasPrice * PriceScale, significantFactor)
    THEN [invoked |-> TRUE, arg |-> price, res |-> updateL2GasPriceFn(price, writeOk)]
    ELSE [invoked |-> FALSE, arg |-> -1,
          res |-> [err |-> "nil", onChain |-> onChainPrice]]

InvokeUpdate_Stale(price, writeOk) ==
    [invoked |-> TRUE, arg |-> curPrice,
     res |-> updateL2GasPriceFn(curPrice, writeOk)]

InvokeUpdate(price, writeOk) ==
    [invoked |-> TRUE, arg |-> price, res |-> updateL2GasPriceFn(price, writeOk)]

\* The error UpdateGasPrice returns: the first one met.
UpdateErr(epochErr, pricerErr, writeErr) ==
    IF epochErr # "nil" THEN epochErr
    ELSE IF pricerErr # "nil" THEN "pricer"
    ELSE writeErr

\* UpdateGasPrice, line 73: the checkpoint moves once the pricer has
\* succeeded, before the write is attempted.
CheckpointAfter_AfterWrite(err, start, latest) ==
    IF err = "nil" THEN latest ELSE start

CheckpointAfter_BeforePricer(err, start, latest) ==
    IF err \in {"pricer", "write", "nil"} THEN latest ELSE start

CheckpointAfter_Clamped(err, start, latest) ==
    IF err \in {"order", "write", "nil"} THEN latest ELSE start

CheckpointAfter(err, start, latest) ==
    IF err \in {"write", "nil"} THEN latest ELSE start

\* Loop, lines 111-119: where the loop goes after a tick.  Both error
\* branches log and `continue`.
AfterTick_StopOnPricer(err) == IF err = "pricer" THEN "stopped" ELSE "select"

AfterTick_StopOnIO(err) ==
    IF err \in {"price", "read", "write"} THEN "stopped" ELSE "select"

AfterTick(err) == "select"

\* NewGasPriceUpdater, lines 36-44: the error it returns in place of an
\* updater.  The unsigned epochStartBlockNumber is never below 0.
NewGasPriceUpdaterErr_NoEpochCheck(averageBlockGasLimit, epochLengthSeconds) ==
    IF averageBlockGasLimit < 1
    THEN "averageBlockGasLimit cannot be less than 1 gas."
    ELSE "nil"

NewGasPriceUpdaterErr(averageBlockGasLimit, epochLengthSeconds) ==
    IF averageBlockGasLimit < 1
    THEN "averageBlockGasLimit cannot be less than 1 gas."
    ELSE IF epochLengthSeconds < 1
    THEN "epochLengthSeconds cannot be less than 1 second."
    ELSE "nil"

\* NewGasPriceUpdater: the checkpoint a new updater starts from.
NewGasPriceUpdater_FromZero(start) == 0

NewGasPriceUpdater(start) == start

\* Start, lines 35-58: the error Start returns, "nil" when it goes on to
\* launch the loop.
StartErr_NoOwnerCheck(ownerOk) ==
    IF ~config.chainID THEN "errNoChainID"
    ELSE IF ~config.privateKey THEN "errNoPrivateKey"
    ELSE IF ~ownerOk THEN "errOwnerCall"
    ELSE "nil"

StartErr(ownerOk) ==
    IF ~config.chainID THEN "errNoChainID"
    ELSE IF ~config.privateKey THEN "errNoPrivateKey"
    ELSE IF ~ownerOk THEN "errOwnerCall"
    ELSE IF config.address # owner THEN "errInvalidSigningKey"
    ELSE "nil"

\* What the loop's log lines say about one tick.
TickRecord(err, start, latest, rate, candidate, invoked, arg, known) ==
    [err |-> err, start |-> start, latest |-> latest, rate |-> rate,
     candidate |-> candidate, updateInvoked |-> invoked, arg |-> arg,
     lastKnown |-> known]

\* boot and call where start-up and single calls are not followed.
NoBoot == [pc |-> "constructed", flags |-> {}, calls |-> <<>>, result |-> "nil"]
NoCall == [fn |-> "none", pending |-> <<>>, log |-> <<>>]

\* --------------------------------------------------------------- Init
Init ==
    /\ config \in [chainID : BOOLEAN, privateKey : BOOLEAN,
                   address : {"signer"},
                   floorPrice : {f * PriceScale : f \in FloorValues},
                   targetGasPerSecond : TargetValues,
                   maxPercentChangePerEpoch : MaxChangeValues,
                   averageBlockGasLimitPerEpoch : {1},
                   epochLengthSeconds : {1}]
    /\ owner \in Addresses
    /\ chainHeight \in 0..1
    /\ onChainPrice \in InitialOnChainPrices
    /\ process = "running"
    /\ startResult = "pending"
    /\ loopPc = "none"
    /\ epochStartBlockNumber = 0
    /\ curPrice = onChainPrice * PriceScale
    /\ l2GasPrice = 0
    /\ ticks = 0
    /\ seed = -1
    /\ ticklog = <<>>
    /\ stop = "open"
    /\ ctx = "live"
    /\ observedAt = -1
    /\ boot = NoBoot
    /\ call = NoCall

\* ------------------------------------------------------------ actions
\* GasPriceOracle.Start: check the configuration and the contract's owner,
\* then `go g.Loop()` and return.
Start(ownerOk) ==
    /\ process = "running"
    /\ startResult = "pending"
    /\ startResult' = StartErr(ownerOk)
    /\ loopPc' = IF StartErr(ownerOk) = "nil" THEN "fetchTip" ELSE loopPc
    /\ UNCHANGED <<config, owner, chainHeight, onChainPrice, process,
                   epochStartBlockNumber, curPrice, l2GasPrice, ticks, seed,
                   ticklog>>
    /\ UNCHANGED <<shutdownVars, auxVars>>

\* GasPriceOracle.Loop up to the ticker: fetch the tip, wrap the two
\* callbacks, build the updater.  log.Crit ends the process.
LoopInit(tipOk, wrapOk) ==
    /\ process = "running"
    /\ loopPc = "fetchTip"
    /\ IF ~tipOk
       THEN /\ process' = "Cannot fetch tip"
            /\ UNCHANGED <<epochStartBlockNumber, seed, loopPc>>
       ELSE IF ~wrapOk
       THEN /\ process' = "error"
            /\ UNCHANGED <<epochStartBlockNumber, seed, loopPc>>
       ELSE /\ seed' = chainHeight
            /\ epochStartBlockNumber' = NewGasPriceUpdater(chainHeight)
            /\ loopPc' = "select"
            /\ UNCHANGED process
    /\ UNCHANGED <<config, owner, chainHeight, onChainPrice, startResult,
                   curPrice, l2GasPrice, ticks, ticklog>>
    /\ UNCHANGED <<shutdownVars, auxVars>>

\* case <-timer.C: taken only by the one goroutine running Loop, when it
\* is back at the select.
TimerFire_Overlapping ==
    /\ process = "running"
    /\ loopPc \in {"select", "polling", "updating"}
    /\ ticks < MaxTicks
    /\ ticks' = ticks + 1
    /\ loopPc' = "polling"
    /\ UNCHANGED <<config, owner, chainHeight, onChainPrice, process,
                   startResult, epochStartBlockNumber, curPrice, l2GasPrice,
                   seed, ticklog>>
    /\ UNCHANGED <<shutdownVars, auxVars>>

TimerFire ==
    /\ process = "running"
    /\ loopPc = "select"
    /\ ticks < MaxTicks
    /\ ticks' = ticks + 1
    /\ loopPc' = "polling"
    /\ UNCHANGED <<config, owner, chainHeight, onChainPrice, process,
                   startResult, epochStartBlockNumber, curPrice, l2GasPrice,
                   seed, ticklog>>
    /\ UNCHANGED <<shutdownVars, auxVars>>

\* g.contract.GasPrice at the head of the tick.
ReadGasPrice(priceOk) ==
    /\ process = "running"
    /\ loopPc = "polling"
    /\ IF priceOk
       THEN /\ l2GasPrice' = onChainPrice
            /\ loopPc' = "updating"
            /\ UNCHANGED ticklog
       ELSE /\ loopPc' = AfterTick("price")
            /\ ticklog' = Append(ticklog,
                   TickRecord("price", epochStartBlockNumber, -1, -1, -1,
                              FALSE, -1, -1))
            /\ UNCHANGED l2GasPrice
    /\ UNCHANGED <<config, owner, chainHeight, onChainPrice, process,
                   startResult, epochStartBlockNumber, curPrice, ticks, seed>>
    /\ UNCHANGED <<shutdownVars, auxVars>>

\* GasPriceUpdater.UpdateGasPrice, and the loop's handling of its result.
UpdateGasPrice(readOk, writeOk) ==
    /\ process = "running"
    /\ loopPc = "updating"
    /\ LET start == epochStartBlockNumber
           latest == getLatestBlockNumberFn(readOk)
           epochErr == EpochErr(readOk, start, latest)
           rate == IF epochErr = "nil"
                   THEN GetAverageGasPerSecond(start, latest,
                            config.epochLengthSeconds,
                            config.averageBlockGasLimitPerEpoch)
                   ELSE -1
           pricer == IF epochErr = "nil"
                     THEN CompleteEpoch(curPrice, config.floorPrice,
                              config.targetGasPerSecond,
                              config.maxPercentChangePerEpoch, rate)
                     ELSE [err |-> "nil", price |-> curPrice]
           computed == epochErr = "nil" /\ pricer.err = "nil"
           write == IF computed THEN InvokeUpdate(pricer.price, writeOk)
                    ELSE [invoked |-> FALSE, arg |-> -1,
                          res |-> [err |-> "nil", onChain |-> onChainPrice]]
           err == UpdateErr(epochErr, pricer.err, write.res.err)
       IN  IF epochErr = "nil" /\ config.epochLengthSeconds = 0
           THEN \* line 25: an unsigned division by zero panics
                /\ process' = "panic: integer divide by zero"
                /\ UNCHANGED <<curPrice, epochStartBlockNumber, onChainPrice,
                               loopPc, ticklog>>
           ELSE /\ curPrice' = pricer.price
                /\ epochStartBlockNumber' = CheckpointAfter(err, start, latest)
                /\ onChainPrice' = write.res.onChain
                /\ loopPc' = AfterTick(err)
                /\ ticklog' = Append(ticklog,
                       TickRecord(err, start, latest, rate,
                                  IF computed THEN pricer.price ELSE -1,
                                  write.invoked, write.arg, l2GasPrice))
                /\ UNCHANGED process
    /\ UNCHANGED <<config, owner, chainHeight, startResult, l2GasPrice, ticks,
                   seed>>
    /\ UNCHANGED <<shutdownVars, auxVars>>

\* GasPriceOracle.Stop, called by whoever holds a started oracle:
\* close(g.stop).  Closing a closed channel panics.
Stop ==
    /\ process = "running"
    /\ startResult = "nil"
    /\ IF stop = "open"
       THEN stop' = "closed" /\ UNCHANGED process
       ELSE process' = "panic: close of closed channel" /\ UNCHANGED stop
    /\ UNCHANGED <<config, owner, chainHeight, onChainPrice, startResult,
                   loopPc, epochStartBlockNumber, curPrice, l2GasPrice, ticks,
                   seed, ticklog, ctx, observedAt, auxVars>>

\* The context held in g.ctx is cancelled.  With context.Background(),
\* which NewGasPriceOracle sets, this step never happens.
CancelContext ==
    /\ process = "running"
    /\ startResult = "nil"
    /\ ctx = "live"
    /\ ctx' = "done"
    /\ UNCHANGED <<config, owner, chainHeight, onChainPrice, process,
                   startResult, loopPc, epochStartBlockNumber, curPrice,
                   l2GasPrice, ticks, seed, ticklog, stop, observedAt, auxVars>>

\* case <-g.ctx.Done(): g.Stop(), and round the for loop again: the
\* branch has no return.
CtxDone ==
    /\ process = "running"
    /\ loopPc = "select"
    /\ ctx = "done"
    /\ observedAt' = IF observedAt < 0 THEN ticks ELSE observedAt
    /\ IF stop = "open"
       THEN stop' = "closed" /\ UNCHANGED process
       ELSE process' = "panic: close of closed channel" /\ UNCHANGED stop
    /\ loopPc' = "select"
    /\ UNCHANGED <<config, owner, chainHeight, onChainPrice, startResult,
                   epochStartBlockNumber, curPrice, l2GasPrice, ticks, seed,
                   ticklog, ctx, auxVars>>

\* The chain grows by a block.
ChainAdvance ==
    /\ chainHeight < MaxHeight
    /\ chainHeight' = chainHeight + 1
    /\ UNCHANGED <<config, owner, onChainPrice, process, startResult, loopPc,
                   epochStartBlockNumber, curPrice, l2GasPrice, ticks, seed,
                   ticklog>>
    /\ UNCHANGED <<shutdownVars, auxVars>>

\* A reorganisation leaves a shorter canonical chain.
ChainReorg ==
    /\ chainHeight > 0
    /\ chainHeight' = chainHeight - 1
    /\ UNCHANGED <<config, owner, onChainPrice, process, startResult, loopPc,
                   epochStartBlockNumber, curPrice, l2GasPrice, ticks, seed,
                   ticklog>>
    /\ UNCHANGED <<shutdownVars, auxVars>>

Next ==
    \/ \E ownerOk \in BOOLEAN : Start(ownerOk)
    \/ \E tipOk \in BOOLEAN, wrapOk \in BOOLEAN : LoopInit(tipOk, wrapOk)
    \/ TimerFire
    \/ \E priceOk \in BOOLEAN : ReadGasPrice(priceOk)
    \/ \E readOk \in BOOLEAN, writeOk \in BOOLEAN : UpdateGasPrice(readOk, writeOk)
    \/ ChainAdvance
    \/ ChainReorg

\* The process as main runs it: nothing calls Stop, and the context is
\* context.Background().
Spec == Init /\ [][Next]_vars

\* The oracle held by a caller that may call Stop and cancel the context,
\* started with one configuration Start accepts.
ShutdownInit ==
    /\ Init
    /\ config.chainID
    /\ config.privateKey
    /\ config.address = owner
    /\ config.targetGasPerSecond > 0
    /\ config.floorPrice = 0
    /\ \A p \in InitialOnChainPrices : onChainPrice <= p

ShutdownNext ==
    \/ \E ownerOk \in BOOLEAN : Start(ownerOk)
    \/ \E tipOk \in BOOLEAN, wrapOk \in BOOLEAN : LoopInit(tipOk, wrapOk)
    \/ TimerFire
    \/ \E priceOk \in BOOLEAN : ReadGasPrice(priceOk)
    \/ \E readOk \in BOOLEAN, writeOk \in BOOLEAN : UpdateGasPrice(readOk, writeOk)
    \/ Stop
    \/ CancelContext
    \/ CtxDone
    \/ ChainAdvance
    \/ ChainReorg

ShutdownSpec == ShutdownInit /\ [][ShutdownNext]_vars

\* ------------------------------------------------------------ start-up
\* main up to Start: NewConfig, then NewGasPriceOracle.  boot.calls lists
\* the calls made to the node, oldest first.

\* Times NewGasPriceOracle's connection probe fails before it is followed
\* no further (the code retries for ever).
MaxChainIDRetries == 1

\* The options NewConfig refuses to run without.
RequiredFlags == {"target-gas-per-second", "max-percent-change-per-epoch",
                  "average-block-gas-limit-per-epoch", "epoch-length-seconds"}

\* The loop's variables while no oracle is started.
NoLoop ==
    /\ owner = "signer"
    /\ chainHeight = 0
    /\ onChainPrice = 0
    /\ process = "running"
    /\ startResult = "pending"
    /\ loopPc = "none"
    /\ epochStartBlockNumber = 0
    /\ l2GasPrice = 0
    /\ ticks = 0
    /\ seed = -1
    /\ ticklog = <<>>
    /\ stop = "open"
    /\ ctx = "live"
    /\ observedAt = -1

\* The main-loop variables while the oracle is not built yet.
Unstarted ==
    /\ NoLoop
    /\ config = [chainID |-> FALSE, privateKey |-> FALSE, address |-> "signer",
                 floorPrice |-> 0, targetGasPerSecond |-> 0,
                 maxPercentChangePerEpoch |-> [num |-> 0, den |-> 1],
                 averageBlockGasLimitPerEpoch |-> 0, epochLengthSeconds |-> 0]
    /\ curPrice = 0

mainVars == <<config, owner, chainHeight, onChainPrice, process, startResult,
              loopPc, epochStartBlockNumber, curPrice, l2GasPrice, ticks, seed,
              ticklog, shutdownVars>>

\* NewConfig, lines 64-83: log.Crit on the first required option that is
\* not set.  A private key that does not parse is logged (line 53) and
\* left nil; a chain id that is not set is left nil.
NewConfigErr_KeyFatal(flags) ==
    IF flags.key # "ok" THEN "errNoPrivateKey"
    ELSE IF ~(RequiredFlags \subseteq flags.set) THEN "Missing config option"
    ELSE "nil"

NewConfigErr(flags) ==
    IF ~(RequiredFlags \subseteq flags.set) THEN "Missing config option"
    ELSE "nil"

BootInit ==
    /\ Unstarted
    /\ boot \in [pc : {"NewConfig"},
                  flags : [key : {"unset", "unparsable", "ok"},
                           chainID : BOOLEAN,
                           set : SUBSET RequiredFlags],
                  calls : {<<>>},
                  result : {"pending"}]
    /\ call = NoCall

NewConfig ==
    /\ boot.pc = "NewConfig"
    /\ boot' = IF NewConfigErr(boot.flags) # "nil"
               THEN [boot EXCEPT !.pc = "exited",
                                 !.result = NewConfigErr(boot.flags)]
               ELSE [boot EXCEPT !.pc = "Dial"]
    /\ UNCHANGED <<mainVars, call>>

\* NewGasPriceOracle, lines 130-133: ethclient.Dial.
Dial(ok) ==
    /\ boot.pc = "Dial"
    /\ boot' = IF ok
               THEN [boot EXCEPT !.pc = "ChainID",
                                 !.calls = Append(@, "Dial")]
               ELSE [boot EXCEPT !.pc = "exited", !.result = "errDial",
                                 !.calls = Append(@, "Dial")]
    /\ UNCHANGED <<mainVars, call>>

\* Lines 136-143: ask the node for its chain id until it answers.
ProbeChainID(ok) ==
    /\ boot.pc = "ChainID"
    /\ ~ok => Len(boot.calls) <= MaxChainIDRetries
    /\ boot' = IF ok
               THEN [boot EXCEPT !.pc = "GasPrice",
                                 !.calls = Append(@, "ChainID")]
               ELSE [boot EXCEPT !.calls = Append(@, "ChainID")]
    /\ UNCHANGED <<mainVars, call>>

\* Lines 152-157: read the contract's gas price.
FetchGasPrice(ok) ==
    /\ boot.pc = "GasPrice"
    /\ boot' = IF ok
               THEN [boot EXCEPT !.pc = IF boot.flags.chainID
                                        THEN "privateKey" ELSE "RemoteChainID",
                                 !.calls = Append(@, "GasPrice")]
               ELSE [boot EXCEPT !.pc = "exited", !.result = "errGasPrice",
                                 !.calls = Append(@, "GasPrice")]
    /\ UNCHANGED <<mainVars, call>>

\* Lines 170-178: no chain id configured, take the node's.
FetchRemoteChainID(ok) ==
    /\ boot.pc = "RemoteChainID"
    /\ boot' = IF ok
               THEN [boot EXCEPT !.pc = "privateKey",
                                 !.calls = Append(@, "ChainID")]
               ELSE [boot EXCEPT !.pc = "exited", !.result = "errChainID",
                                 !.calls = Append(@, "ChainID")]
    /\ UNCHANGED <<mainVars, call>>

\* Lines 180-192: refuse a nil private key, otherwise return the oracle.
CheckPrivateKey ==
    /\ boot.pc = "privateKey"
    /\ boot' = IF boot.flags.key # "ok"
               THEN [boot EXCEPT !.pc = "exited", !.result = "errNoPrivateKey"]
               ELSE [boot EXCEPT !.pc = "constructed", !.result = "nil"]
    /\ UNCHANGED <<mainVars, call>>

BootNext ==
    \/ NewConfig
    \/ \E ok \in BOOLEAN : Dial(ok)
    \/ \E ok \in BOOLEAN : ProbeChainID(ok)
    \/ \E ok \in BOOLEAN : FetchGasPrice(ok)
    \/ \E ok \in BOOLEAN : FetchRemoteChainID(ok)
    \/ CheckPrivateKey

BootSpec == BootInit /\ [][BootNext]_vars

\* -------------------------------------------------------- the pricer
\* One GasPricer and the CompleteEpoch calls made on it.  call.pending are
\* the observed rates still to come, call.log one record per call made.

\* CompleteEpoch calls made on one pricer.
MaxCalls == 2

\* One price unit is 1/PricerScale: a call divides by at most 20.
PricerScale == 20 ^ MaxCalls

\* What a pricer is built with.
PricerPrices == {0, 10, 16}
PricerFloors == {0, 15}
PricerTargets == {0, 100}
PricerMaxChanges == {[num |-> 1, den |-> 10]}

\* A float64 rate: a finite value v, or not a number, or infinite.
Finite(v) == [kind |-> "finite", v |-> v]
NaN == [kind |-> "NaN", v |-> 0]
PosInf == [kind |-> "+Inf", v |-> 0]
ObservedRates == {Finite(-1), Finite(0), Finite(95), Finite(100), Finite(200),
                  NaN, PosInf}

RECURSIVE Seqs(_, _)
Seqs(S, n) ==
    IF n = 0 THEN {<<>>}
    ELSE {Append(q, x) : q \in Seqs(S, n - 1), x \in S}

\* CompleteEpoch on a float64: a rate that is not finite is InvalidInput.
CompleteEpochOf(cur, floor, target, maxChange, observed) ==
    IF observed.kind # "finite" THEN [err |-> "InvalidInput", price |-> cur]
    ELSE CompleteEpoch(cur, floor, target, maxChange, observed.v)

PricerInit ==
    /\ NoLoop
    /\ config \in [chainID : {TRUE}, privateKey : {TRUE}, address : {"signer"},
                    floorPrice : {f * PricerScale : f \in PricerFloors},
                    targetGasPerSecond : PricerTargets,
                    maxPercentChangePerEpoch : PricerMaxChanges,
                    averageBlockGasLimitPerEpoch : {1},
                    epochLengthSeconds : {1}]
    /\ curPrice \in {p * PricerScale : p \in PricerPrices}
    /\ boot = NoBoot
    /\ call \in [fn : {"CompleteEpoch"},
                  pending : Seqs(ObservedRates, MaxCalls),
                  log : {<<>>}]

\* One call: the pricer's price becomes what CompleteEpoch leaves.
CompleteEpochCall_NoCommit ==
    /\ call.fn = "CompleteEpoch"
    /\ call.pending # <<>>
    /\ LET observed == Head(call.pending)
           r == CompleteEpochOf(curPrice, config.floorPrice,
                    config.targetGasPerSecond,
                    config.maxPercentChangePerEpoch, observed)
       IN  /\ curPrice' = curPrice
           /\ call' = [call EXCEPT
                  !.pending = Tail(@),
                  !.log = Append(@, [before |-> curPrice, observed |-> observed,
                                     err |-> r.err, after |-> r.price])]
    /\ UNCHANGED <<config, owner, chainHeight, onChainPrice, process,
                   startResult, loopPc, epochStartBlockNumber, l2GasPrice,
                   ticks, seed, ticklog, shutdownVars, boot>>

CompleteEpochCall ==
    /\ call.fn = "CompleteEpoch"
    /\ call.pending # <<>>
    /\ LET observed == Head(call.pending)
           r == CompleteEpochOf(curPrice, config.floorPrice,
                    config.targetGasPerSecond,
                    config.maxPercentChangePerEpoch, observed)
       IN  /\ curPrice' = r.price
           /\ call' = [call EXCEPT
                  !.pending = Tail(@),
                  !.log = Append(@, [before |-> curPrice, observed |-> observed,
                                     err |-> r.err, after |-> r.price])]
    /\ UNCHANGED <<config, owner, chainHeight, onChainPrice, process,
                   startResult, loopPc, epochStartBlockNumber, l2GasPrice,
                   ticks, seed, ticklog, shutdownVars, boot>>

PricerNext == CompleteEpochCall

PricerSpec == PricerInit /\ [][PricerNext]_vars

\* ------------------------------------------------ single function calls
\* One call of GetAverageGasPerSecond, or a call of
\* isDifferenceSignificant and then one with a and b exchanged:
\* call.pending holds the arguments, call.log the results.

\* Arguments the calls are made with.
RateStarts == 0..2
RateLatests == 0..3
RateGasLimits == {1, 3, UintModulus \div 2}
RateEpochLengths == {1, 2}
GateValues == 0..4
GateFactors == {[num |-> 5, den |-> 100], [num |-> 10, den |-> 100],
                [num |-> 25, den |-> 100], [num |-> 90, den |-> 100]}

\* UpdateGasPrice calls GetAverageGasPerSecond after its order check:
\* the latest block is not below the start.
RateArguments ==
    {x \in [start : RateStarts, latest : RateLatests,
            averageBlockGasLimit : RateGasLimits,
            epochLengthSeconds : RateEpochLengths] : x.start <= x.latest}

FnInit ==
    /\ Unstarted
    /\ boot = NoBoot
    /\ \/ call \in [fn : {"GetAverageGasPerSecond"},
                     pending : {<<x>> : x \in RateArguments},
                     log : {<<>>}]
       \/ call \in [fn : {"isDifferenceSignificant"},
                     pending : {<<x, [x EXCEPT !.a = x.b, !.b = x.a]>> :
                                    x \in [a : GateValues, b : GateValues,
                                           c : GateFactors]},
                     log : {<<>>}]

GetAverageGasPerSecondCall ==
    /\ call.fn = "GetAverageGasPerSecond"
    /\ call.pending # <<>>
    /\ LET x == Head(call.pending)
       IN  call' = [call EXCEPT
               !.pending = Tail(@),
               !.log = Append(@, [in |-> x,
                                  out |-> GetAverageGasPerSecond(x.start, x.latest,
                                              x.epochLengthSeconds,
                                              x.averageBlockGasLimit)])]
    /\ UNCHANGED <<mainVars, boot>>

isDifferenceSignificantCall ==
    /\ call.fn = "isDifferenceSignificant"
    /\ call.pending # <<>>
    /\ LET x == Head(call.pending)
       IN  call' = [call EXCEPT
               !.pending = Tail(@),
               !.log = Append(@, [in |-> x,
                                  out |-> isDifferenceSignificant(x.a, x.b, x.c)])]
    /\ UNCHANGED <<mainVars, boot>>

FnNext ==
    \/ GetAverageGasPerSecondCall
    \/ isDifferenceSignificantCall

FnSpec == FnInit /\ [][FnNext]_vars

\* ------------------------------------------------- the height reader
\* MaxBlocks blocks generated on an empty chain and inserted one at a time,
\* with reads of the latest height in between.  call.pending are the
\* numbers of the blocks still to insert; call.log has one record per read.

\* Blocks inserted, as in TestWrapGetLatestBlockNumberFn.
MaxBlocks == 10
\* Reads made in one behaviour.
MaxReads == 2

RECURSIVE GenerateChain(_, _)
GenerateChain(parent, n) ==
    IF n = 0 THEN <<>> ELSE <<parent + 1>> \o GenerateChain(parent + 1, n - 1)

ReaderInit ==
    /\ Unstarted
    /\ boot = NoBoot
    /\ call = [fn |-> "getLatestBlockNumberFn",
               pending |-> GenerateChain(chainHeight, MaxBlocks),
               log |-> <<>>]

\* chain.InsertChain of the next generated block.
InsertChain ==
    /\ call.fn = "getLatestBlockNumberFn"
    /\ call.pending # <<>>
    /\ chainHeight' = Head(call.pending)
    /\ call' = [call EXCEPT !.pending = Tail(@)]
    /\ UNCHANGED <<config, owner, onChainPrice, process, startResult, loopPc,
                   epochStartBlockNumber, curPrice, l2GasPrice, ticks, seed,
                   ticklog, shutdownVars, boot>>

\* getLatest()
GetLatest(readOk) ==
    /\ call.fn = "getLatestBlockNumberFn"
    /\ Len(call.log) < MaxReads
    /\ call' = [call EXCEPT
           !.log = Append(@, [inserted |-> MaxBlocks - Len(call.pending),
                              ok |-> readOk,
                              out |-> getLatestBlockNumberFn(readOk)])]
    /\ UNCHANGED <<mainVars, boot>>

ReaderNext ==
    \/ InsertChain
    \/ \E readOk \in BOOLEAN : GetLatest(readOk)

ReaderSpec == ReaderInit /\ [][ReaderNext]_vars

\* ---------------------------------------------------------- the updater
\* NewGasPriceUpdater called with any averageBlockGasLimit and
\* epochLengthSeconds, and the ticks of the updater it returns.
\* call.pending holds the arguments, call.log what the call returned.

\* Values of averageBlockGasLimit and of epochLengthSeconds.
UpdaterArguments == 0..2

UpdaterInit ==
    /\ config \in [chainID : {TRUE}, privateKey : {TRUE}, address : {"signer"},
                    floorPrice : {0},
                    targetGasPerSecond : {t \in TargetValues : t > 0},
                    maxPercentChangePerEpoch : MaxChangeValues,
                    averageBlockGasLimitPerEpoch : UpdaterArguments,
                    epochLengthSeconds : UpdaterArguments]
    /\ owner = "signer"
    /\ chainHeight \in 0..1
    /\ onChainPrice \in InitialOnChainPrices
    /\ process = "running"
    /\ startResult = "nil"
    /\ loopPc = "none"
    /\ epochStartBlockNumber = 0
    /\ curPrice = onChainPrice * PriceScale
    /\ l2GasPrice = 0
    /\ ticks = 0
    /\ seed = -1
    /\ ticklog = <<>>
    /\ stop = "open"
    /\ ctx = "live"
    /\ observedAt = -1
    /\ boot = NoBoot
    /\ call = [fn |-> "NewGasPriceUpdater",
               pending |-> <<[averageBlockGasLimit |->
                                  config.averageBlockGasLimitPerEpoch,
                              epochLengthSeconds |-> config.epochLengthSeconds]>>,
               log |-> <<>>]

\* NewGasPriceUpdater: an error and no updater, or an updater whose ticks
\* may start.
NewGasPriceUpdaterCall ==
    /\ call.fn = "NewGasPriceUpdater"
    /\ call.pending # <<>>
    /\ LET x == Head(call.pending)
           err == NewGasPriceUpdaterErr(x.averageBlockGasLimit,
                                        x.epochLengthSeconds)
       IN  /\ call' = [call EXCEPT !.pending = Tail(@),
                                   !.log = Append(@, [in |-> x, err |-> err])]
           /\ IF err = "nil"
              THEN /\ seed' = chainHeight
                   /\ epochStartBlockNumber' = NewGasPriceUpdater(chainHeight)
                   /\ loopPc' = "select"
              ELSE UNCHANGED <<seed, epochStartBlockNumber, loopPc>>
    /\ UNCHANGED <<config, owner, chainHeight, onChainPrice, process,
                   startResult, curPrice, l2GasPrice, ticks, ticklog,
                   shutdownVars, boot>>

UpdaterNext ==
    \/ NewGasPriceUpdaterCall
    \/ TimerFire
    \/ \E priceOk \in BOOLEAN : ReadGasPrice(priceOk)
    \/ \E readOk \in BOOLEAN, writeOk \in BOOLEAN : UpdateGasPrice(readOk, writeOk)
    \/ ChainAdvance
    \/ ChainReorg

UpdaterSpec == UpdaterInit /\ [][UpdaterNext]_vars

\* ------------------------------------------------------------- claims
Ticks == 1..Len(ticklog)

\* The checkpoint as tick i left it: what the next tick starts from, or
\* the stored one when tick i is the latest.
CheckpointLeftBy(i) ==
    IF i < Len(ticklog) THEN ticklog[i + 1].start ELSE epochStartBlockNumber

\* The checkpoint recorded by the most recent of ticks 1..k that computed a
\* price, the seed when there is none.
RECURSIVE LastRecorded(_)
LastRecorded(k) ==
    IF k = 0 THEN seed
    ELSE IF ticklog[k].candidate >= 0 THEN ticklog[k].latest
    ELSE LastRecorded(k - 1)

\* C1: a tick that reads a height not below the checkpoint and whose
\* CompleteEpoch succeeds leaves the checkpoint at the height it read,
\* whether the write then succeeds or fails.
C1_CheckpointAdvances ==
    \A i \in Ticks :
        (ticklog[i].latest >= ticklog[i].start /\ ticklog[i].candidate >= 0)
            => /\ CheckpointLeftBy(i) = ticklog[i].latest
               /\ ticklog[i].err \in {"nil", "write"}

C1_Witness ==
    \E i \in Ticks, j \in Ticks :
        /\ ticklog[i].err = "write" /\ ticklog[i].latest > ticklog[i].start
        /\ CheckpointLeftBy(i) = ticklog[i].latest
        /\ ticklog[j].err = "nil" /\ ticklog[j].latest > ticklog[j].start

\* C2: a tick whose height read or whose CompleteEpoch fails returns that
\* error, leaves the checkpoint where it was and does not call
\* updateL2GasPriceFn.
C2_FailedTickKeepsCheckpoint ==
    LET Failed(i) ==
            \/ ticklog[i].err = "read"
            \/ ticklog[i].err = "pricer"
            \/ (ticklog[i].rate >= 0 /\ ticklog[i].candidate < 0)
    IN  \A i \in Ticks :
            Failed(i) => /\ ticklog[i].err \in {"read", "pricer"}
                         /\ CheckpointLeftBy(i) = ticklog[i].start
                         /\ ~ticklog[i].updateInvoked

C2_Witness ==
    \E i \in Ticks, j \in Ticks :
        /\ ticklog[i].err = "pricer" /\ ticklog[i].latest > ticklog[i].start
        /\ CheckpointLeftBy(i) = ticklog[i].start
        /\ ticklog[j].err = "read" /\ chainHeight > ticklog[j].start

\* C3: a tick that reads a height below the checkpoint fails with the
\* out-of-order error, calls neither the pricer nor updateL2GasPriceFn and
\* leaves the checkpoint for the next tick to start from.
C3_OutOfOrderRejected ==
    \A i \in Ticks :
        (ticklog[i].latest >= 0 /\ ticklog[i].latest < ticklog[i].start)
            => /\ ticklog[i].err = "order"
               /\ ticklog[i].rate < 0
               /\ ticklog[i].candidate < 0
               /\ ~ticklog[i].updateInvoked
               /\ CheckpointLeftBy(i) = ticklog[i].start

C3_Witness ==
    \E i \in Ticks :
        /\ ticklog[i].err = "order"
        /\ i < Len(ticklog)
        /\ ticklog[i + 1].start = ticklog[i].start
        /\ ticklog[i + 1].err = "nil"

\* C4: the checkpoint never decreases from one tick to the next, and a
\* rate is only computed from a height at or above the checkpoint.
C4_CheckpointMonotone ==
    /\ \A i \in Ticks :
          /\ CheckpointLeftBy(i) >= ticklog[i].start
          /\ ticklog[i].rate >= 0 =>
                /\ ticklog[i].latest >= ticklog[i].start
                /\ ticklog[i].rate =
                       ((ticklog[i].latest - ticklog[i].start)
                           * config.averageBlockGasLimitPerEpoch)
                       \div config.epochLengthSeconds
    /\ seed >= 0 => epochStartBlockNumber >= seed

C4_Witness ==
    \E i \in Ticks :
        /\ ticklog[i].err = "order"
        /\ i + 1 < Len(ticklog)
        /\ ticklog[i + 1].rate >= 0
        /\ ticklog[i + 2].rate > 0
        /\ chainHeight < epochStartBlockNumber

\* C5 as stated: every rate is computed from a checkpoint recorded at the
\* tick immediately before (the seed for the first tick).
C5_Original ==
    \A i \in Ticks :
        (i > 1 /\ ticklog[i].rate >= 0) => ticklog[i - 1].candidate >= 0

\* C5 as amended: the checkpoint moves only in a tick that computes a
\* price; a rate is computed from the checkpoint recorded by the most
\* recent such tick (the seed when there is none), however many skipped
\* ticks lie in between.
C5_WindowFromLastComputedTick ==
    \A i \in Ticks :
        /\ ticklog[i].start = LastRecorded(i - 1)
        /\ CheckpointLeftBy(i) = LastRecorded(i)

C5_Witness ==
    \E i \in Ticks :
        /\ i >= 3
        /\ ticklog[i].rate > 0
        /\ ticklog[i - 1].err \in {"price", "read", "order"}
        /\ ticklog[i - 2].candidate >= 0
        /\ ticklog[i].start = ticklog[i - 2].latest

C8_Original ==
    /\ process # "Cannot fetch tip"
    /\ \A i \in Ticks :
          ticklog[i].err \in {"price", "read", "write"} =>
              process = "running" /\ loopPc # "stopped"

\* C8 as amended: a failed on-chain price read, height read or price
\* submission in a tick leaves the process running and the loop at its
\* select, ready for the next tick; a failed tip fetch at loop start ends
\* the process before any tick.
C8_TickIOFailuresAreSkipped ==
    /\ \A i \in Ticks :
          ticklog[i].err \in {"price", "read", "write"} =>
              /\ process = "running"
              /\ loopPc \in {"select", "polling", "updating"}
              /\ (ticks = i => loopPc = "select")
              /\ (ticks = i /\ ticks < MaxTicks => ENABLED TimerFire)
    /\ process = "Cannot fetch tip" =>
          /\ ticks = 0 /\ seed = -1 /\ ticklog = <<>>
          /\ ~ENABLED TimerFire

C8_Witness ==
    /\ Len(ticklog) = 3
    /\ ticklog[1].err = "price"
    /\ ticklog[2].err = "read"
    /\ ticklog[3].err = "write"
    /\ loopPc = "select"

\* C9: the loop runs only when the signer's address is the contract's
\* owner; on a mismatch Start returns errInvalidSigningKey, on a failed
\* owner call that error, and in both cases no loop is started.
C9_LoopOnlyForOwner ==
    /\ (loopPc # "none" \/ ticks > 0 \/ seed >= 0 \/ ticklog # <<>>) =>
          startResult = "nil" /\ config.address = owner
    /\ startResult \in {"errInvalidSigningKey", "errOwnerCall"} =>
          loopPc = "none" /\ ticks = 0 /\ ~ENABLED TimerFire
    /\ (startResult # "pending" /\ config.chainID /\ config.privateKey
            /\ config.address # owner) =>
          startResult \in {"errInvalidSigningKey", "errOwnerCall"}
    /\ startResult = "errInvalidSigningKey" => config.address # owner

C9_Witness ==
    /\ startResult = "errInvalidSigningKey"
    /\ config.address # owner
    /\ loopPc = "none"
    /\ chainHeight = MaxHeight

\* C10 as stated: when Start has returned nil the checkpoint is already
\* seeded from the tip.
C10_Original ==
    startResult = "nil" => seed >= 0

\* C10 as amended: Start returns nil having only launched the loop; the
\* loop itself then fetches the tip and seeds the checkpoint before it
\* waits for its first tick, and the first tick starts from that seed.
C10_LoopSeedsCheckpoint ==
    /\ startResult = "pending" => seed = -1 /\ ticks = 0
    /\ loopPc = "fetchTip" => startResult = "nil" /\ seed = -1 /\ ticks = 0
    /\ loopPc \in {"select", "polling", "updating"} => seed >= 0
    /\ (seed >= 0 /\ ticklog = <<>>) => epochStartBlockNumber = seed
    /\ ticklog # <<>> => ticklog[1].start = seed

C10_Witness ==
    /\ Len(ticklog) >= 1
    /\ ticklog[1].rate > 0
    /\ ticklog[1].start = seed
    /\ seed > 0

\* C11: once the loop has observed the shutdown signal it processes no
\* further timer tick: the ticks taken stay at the number taken when the
\* signal was observed.
C11_Original ==
    observedAt >= 0 => ticks = observedAt

\* C12: at most one tick is in progress at any time: the ticks started
\* exceed the ticks finished by at most one, by exactly one while the loop
\* is inside a tick, and no timer fire is handled until that tick is over.
C12_OneTickAtATime ==
    /\ ticks - Len(ticklog) \in {0, 1}
    /\ (ticks - Len(ticklog) = 1) <=> (loopPc \in {"polling", "updating"})
    /\ loopPc \in {"polling", "updating"} => ~ENABLED TimerFire

C12_Witness ==
    /\ ticks = 2
    /\ Len(ticklog) = 1
    /\ loopPc = "updating"
    /\ ticklog[1].err = "nil"

\* C13: every fatal configuration error (a required numeric option
\* missing, the private key missing or unparsable) is reported before any
\* call to the node.
C13_Original ==
    boot.result \in {"Missing config option", "errNoPrivateKey"} =>
        boot.calls = <<>>

\* C13, as the code has it: a missing numeric option is reported before
\* any call to the node; a missing or unparsable private key is reported
\* only once the node has been dialled, has answered the chain-id probe
\* and the price read (and the chain-id fetch when no chain id is
\* configured); a missing chain id is never an error of its own, and no
\* oracle is built without a key.
C13_ConfigErrorsAndChainCalls ==
    /\ boot.result = "Missing config option" => boot.calls = <<>>
    /\ boot.result = "errNoPrivateKey" =>
           /\ boot.flags.key # "ok"
           /\ Len(boot.calls) >= IF boot.flags.chainID THEN 3 ELSE 4
           /\ boot.calls[1] = "Dial"
           /\ boot.calls[Len(boot.calls)] =
                  IF boot.flags.chainID THEN "GasPrice" ELSE "ChainID"
    /\ boot.pc = "constructed" =>
           /\ boot.flags.key = "ok"
           /\ RequiredFlags \subseteq boot.flags.set
    /\ boot.result # "errNoChainID"

C13_Witness ==
    /\ boot.result = "errNoPrivateKey"
    /\ boot.flags.key = "unparsable"
    /\ ~boot.flags.chainID
    /\ boot.calls = <<"Dial", "ChainID", "GasPrice", "ChainID">>

\* ----------------------------------------------- claims on single calls
Calls == 1..Len(call.log)

\* A call CompleteEpoch accepts: a finite rate that is not negative, and a
\* positive target.
ValidCall(i) ==
    /\ call.log[i].observed.kind = "finite"
    /\ call.log[i].observed.v >= 0
    /\ config.targetGasPerSecond > 0

\* C14 as stated: for every valid input the result of CompleteEpoch is at
\* least floorPrice, at most currentPrice * (1 + maxPercentChangePerEpoch)
\* and at least currentPrice * (1 - maxPercentChangePerEpoch).
C14_Original ==
    \A i \in Calls :
        ValidCall(i) =>
            LET c == call.log[i]
                m == config.maxPercentChangePerEpoch
            IN  /\ c.after >= config.floorPrice
                /\ c.after * m.den <= c.before * (m.den + m.num)
                /\ c.after * m.den >= c.before * (m.den - m.num)

\* C14 as amended: for every valid input the result is at least
\* floorPrice and at least currentPrice * (1 - maxPercentChangePerEpoch),
\* and at most the larger of floorPrice and
\* currentPrice * (1 + maxPercentChangePerEpoch): a floor above that
\* product lifts the result over it.
C14_ResultWithinBounds ==
    \A i \in Calls :
        ValidCall(i) =>
            LET c == call.log[i]
                m == config.maxPercentChangePerEpoch
            IN  /\ c.err = "nil"
                /\ c.after >= config.floorPrice
                /\ c.after * m.den >= c.before * (m.den - m.num)
                /\ c.after * m.den <=
                       Max(config.floorPrice * m.den, c.before * (m.den + m.num))

C14_Witness ==
    \E i \in Calls :
        LET c == call.log[i]
            m == config.maxPercentChangePerEpoch
        IN  /\ ValidCall(i)
            /\ c.before > 0
            /\ config.floorPrice * m.den > c.before * (m.den + m.num)
            /\ c.after = config.floorPrice

\* C15: CompleteEpoch returns
\* max(currentPrice * clamp(observed / target, 1 - m, 1 + m), floorPrice)
\* and commits it as the current price; with floorPrice 0, target 100,
\* m 0.1 and currentPrice 10 a rate of 200 gives 11 and a rate of 0 gives 9.
C15_CompleteEpochFormula ==
    \A i \in Calls :
        LET c == call.log[i]
            m == config.maxPercentChangePerEpoch
            x == c.observed.v
            t == config.targetGasPerSecond
            floor == config.floorPrice
        IN  /\ ValidCall(i) =>
                  /\ c.err = "nil"
                  /\ x * m.den > (m.den + m.num) * t =>
                         c.after * m.den = Max(c.before * (m.den + m.num), floor * m.den)
                  /\ x * m.den < (m.den - m.num) * t =>
                         c.after * m.den = Max(c.before * (m.den - m.num), floor * m.den)
                  /\ (/\ x * m.den <= (m.den + m.num) * t
                      /\ x * m.den >= (m.den - m.num) * t) =>
                         c.after * t = Max(c.before * x, floor * t)
                  /\ (/\ floor = 0
                      /\ t = 100
                      /\ m = [num |-> 1, den |-> 10]
                      /\ c.before = 10 * PricerScale) =>
                         /\ x = 200 => c.after = 11 * PricerScale
                         /\ x = 0 => c.after = 9 * PricerScale
            /\ IF i < Len(call.log)
               THEN call.log[i + 1].before = c.after
               ELSE curPrice = c.after

C15_Witness ==
    /\ Len(call.log) = 2
    /\ config.floorPrice = 0
    /\ config.targetGasPerSecond = 100
    /\ call.log[1].before = 10 * PricerScale
    /\ call.log[1].observed = Finite(200)
    /\ call.log[1].after = 11 * PricerScale
    /\ call.log[2].observed = Finite(0)
    /\ curPrice * 10 = 99 * PricerScale

\* C16: a call that fails (a negative or non-finite rate: InvalidInput; a
\* target <= 0: InvalidConfiguration) leaves the stored price as it was;
\* the stored price changes only in a successful call, to its result.
C16_FailedCallKeepsPrice ==
    \A i \in Calls :
        LET c == call.log[i]
            storedAfter == IF i < Len(call.log)
                           THEN call.log[i + 1].before ELSE curPrice
        IN  /\ (c.observed.kind # "finite" \/ c.observed.v < 0) =>
                  c.err = "InvalidInput"
            /\ (/\ c.observed.kind = "finite"
                /\ c.observed.v >= 0
                /\ config.targetGasPerSecond <= 0) =>
                  c.err = "InvalidConfiguration"
            /\ c.err # "nil" => storedAfter = c.before
            /\ storedAfter # c.before => (c.err = "nil" /\ storedAfter = c.after)

C16_Witness ==
    /\ Len(call.log) = 2
    /\ call.log[1].err = "nil"
    /\ call.log[1].after > call.log[1].before
    /\ call.log[2].observed = NaN
    /\ call.log[2].err = "InvalidInput"
    /\ curPrice = call.log[1].after

\* C18 as stated: two calls in a row with the same observed rate give the
\* same result.
C18_Original ==
    \A i \in Calls :
        (/\ i + 1 \in Calls
         /\ call.log[i].err = "nil"
         /\ call.log[i + 1].err = "nil"
         /\ call.log[i + 1].observed = call.log[i].observed) =>
            call.log[i + 1].after = call.log[i].after

\* C18 as amended: the second of two calls in a row starts from the price
\* the first committed, so with the same observed rate it gives the same
\* result only when that rate leaves the committed price where it is: the
\* rate equals the target, the price is 0, or the rate is below the target
\* and the price is at the floor.
C18_SecondCallCompounds ==
    \A i \in Calls :
        (/\ i + 1 \in Calls
         /\ call.log[i].err = "nil"
         /\ call.log[i + 1].err = "nil"
         /\ call.log[i + 1].observed = call.log[i].observed) =>
            /\ call.log[i + 1].before = call.log[i].after
            /\ (call.log[i + 1].after = call.log[i].after) <=>
                   \/ call.log[i].observed.v = config.targetGasPerSecond
                   \/ call.log[i].after = 0
                   \/ /\ call.log[i].observed.v < config.targetGasPerSecond
                      /\ call.log[i].after = config.floorPrice

C18_Witness ==
    /\ Len(call.log) = 2
    /\ call.log[1].observed = Finite(200)
    /\ call.log[2].observed = Finite(200)
    /\ call.log[1].err = "nil"
    /\ call.log[1].after > call.log[1].before
    /\ call.log[2].after > call.log[1].after

\* C19: for start <= latest, averageBlockGasLimit >= 1 and
\* epochLengthSeconds >= 1 the rate is the exact quotient
\* (latest - start) * averageBlockGasLimit / epochLengthSeconds.
C19_Original ==
    call.fn = "GetAverageGasPerSecond" =>
        \A i \in Calls :
            LET c == call.log[i]
            IN  (/\ c.in.start <= c.in.latest
                 /\ c.in.averageBlockGasLimit >= 1
                 /\ c.in.epochLengthSeconds >= 1) =>
                    c.out * c.in.epochLengthSeconds =
                        (c.in.latest - c.in.start) * c.in.averageBlockGasLimit

\* C20: isDifferenceSignificant(1, 1, 0.05) is false, (4, 1, 0.25) is
\* true, (3, 1, 0.1) is true and (4, 1, 0.9) is false.
C20_LiteralCases ==
    call.fn = "isDifferenceSignificant" =>
        \A i \in Calls :
            LET c == call.log[i]
            IN  /\ c.in = [a |-> 1, b |-> 1, c |-> [num |-> 5, den |-> 100]]
                       => c.out = FALSE
                /\ c.in = [a |-> 4, b |-> 1, c |-> [num |-> 25, den |-> 100]]
                       => c.out = TRUE
                /\ c.in = [a |-> 3, b |-> 1, c |-> [num |-> 10, den |-> 100]]
                       => c.out = TRUE
                /\ c.in = [a |-> 4, b |-> 1, c |-> [num |-> 90, den |-> 100]]
                       => c.out = FALSE

C20_Witness ==
    /\ call.fn = "isDifferenceSignificant"
    /\ Len(call.log) = 1
    /\ call.log[1].in = [a |-> 4, b |-> 1, c |-> [num |-> 90, den |-> 100]]
    /\ call.log[1].out = FALSE

C22_ReadReturnsSubmitted ==
    \A i \in Ticks :
        (ticklog[i].updateInvoked /\ ticklog[i].err = "nil") =>
            LET p == ticklog[i].arg
                Is(v) == v * PriceScale <= p /\ p < (v + 1) * PriceScale
            IN  /\ i = Len(ticklog) => Is(onChainPrice)
                /\ (i = Len(ticklog) /\ loopPc = "updating") => Is(l2GasPrice)
                /\ (i < Len(ticklog) /\ ticklog[i + 1].lastKnown >= 0) =>
                       Is(ticklog[i + 1].lastKnown)

C22_Witness ==
    /\ Len(ticklog) = 3
    /\ \A i \in 1..2 :
           /\ ticklog[i].updateInvoked
           /\ ticklog[i].err = "nil"
           /\ ticklog[i + 1].lastKnown * PriceScale < ticklog[i].arg
    /\ ticklog[2].arg # ticklog[1].arg
    /\ ticklog[3].lastKnown # ticklog[2].lastKnown

\* C23: the latest-height reader returns the chain tip: 0 on the empty
\* chain and k after the k-th single-block insertion, so two reads differ
\* by the number of blocks inserted between them.
C23_ReaderReturnsTip ==
    call.fn = "getLatestBlockNumberFn" =>
        /\ \A i \in Calls :
               call.log[i].ok => call.log[i].out = call.log[i].inserted
        /\ \A i \in Calls, j \in Calls :
               (i < j /\ call.log[i].ok /\ call.log[j].ok) =>
                   call.log[j].out - call.log[i].out =
                       call.log[j].inserted - call.log[i].inserted

C23_Witness ==
    /\ call.fn = "getLatestBlockNumberFn"
    /\ Len(call.log) = 2
    /\ call.log[1] = [inserted |-> 0, ok |-> TRUE, out |-> 0]
    /\ call.log[2] = [inserted |-> MaxBlocks, ok |-> TRUE, out |-> MaxBlocks]

\* -------------------------------------------------------------- shutdown
\* C24: the stop channel is closed at most once: no close of an already
\* closed channel, which panics, is reachable.
C24_Original ==
    process # "panic: close of closed channel"

\* ------------------------------------------------- the submitted price
\* The pricer's price as ticks 1..k left it, -1 while no tick has computed
\* one.
RECURSIVE PriceLeftBy(_)
PriceLeftBy(k) ==
    IF k = 0 THEN -1
    ELSE IF ticklog[k].candidate >= 0 THEN ticklog[k].candidate
    ELSE PriceLeftBy(k - 1)

\* C25: in every tick that reaches the write step the price handed to
\* updateL2GasPriceFn is the one CompleteEpoch returned in that tick, which
\* is the updater's pricer's current price after the call: the price the
\* earlier ticks left, moved by this tick's rate.
C25_SubmittedIsThisEpochs ==
    \A i \in Ticks :
        ticklog[i].updateInvoked =>
            /\ ticklog[i].arg = ticklog[i].candidate
            /\ i = Len(ticklog) => curPrice = ticklog[i].arg
            /\ PriceLeftBy(i - 1) >= 0 =>
                   ticklog[i].arg =
                       CompleteEpoch(PriceLeftBy(i - 1), config.floorPrice,
                                     config.targetGasPerSecond,
                                     config.maxPercentChangePerEpoch,
                                     ticklog[i].rate).price

C25_Witness ==
    /\ Len(ticklog) = 3
    /\ ticklog[1].updateInvoked
    /\ ticklog[2].err = "read"
    /\ ticklog[3].updateInvoked
    /\ ticklog[3].arg # ticklog[1].arg
    /\ curPrice = ticklog[3].arg

\* ---------------------------------------------- the updater's constructor
\* C26: NewGasPriceUpdater returns an error and no updater when
\* averageBlockGasLimit < 1 or epochLengthSeconds < 1; every updater that
\* exists has epochLengthSeconds >= 1, and no tick divides by zero.
C26_NoUpdaterWithoutEpochLength ==
    /\ \A i \in Calls :
           LET c == call.log[i]
           IN  /\ (c.err # "nil") <=>
                      (c.in.averageBlockGasLimit < 1 \/ c.in.epochLengthSeconds < 1)
               /\ c.err # "nil" =>
                      (loopPc = "none" /\ ticks = 0 /\ ticklog = <<>>)
    /\ loopPc # "none" =>
           (config.epochLengthSeconds >= 1 /\ config.averageBlockGasLimitPerEpoch >= 1)
    /\ process # "panic: integer divide by zero"

C26_Witness ==
    /\ Len(call.log) = 1
    /\ call.log[1].in.averageBlockGasLimit >= 1
    /\ call.log[1].in.epochLengthSeconds = 0
    /\ call.log[1].err = "epochLengthSeconds cannot be less than 1 second."
    /\ loopPc = "none"
    /\ chainHeight > 0
====
